---------------------------- MODULE Spec2Model ----------------------------
(***************************************************************************)
(* Model of knowledge-distiller: subtitle_downloader.py (collection        *)
(* expansion, caption probe, language resolution, download options, the    *)
(* batch loop), faster-whisper.py (time formatting, segment-to-SRT) and    *)
(* clean_srt_for_LLM.py (SRT parsing, the per-file loop).                  *)
(*                                                                         *)
(* Python str values are sequences of one-character strings; Python dicts  *)
(* are functions whose DOMAIN is the key set; None is the string "None".   *)
(* A Python float is a record [int, bits]: the value int + 0.bits in       *)
(* binary, kept to the 53 significant bits of an IEEE-754 double.          *)
(***************************************************************************)
EXTENDS Integers, Sequences, FiniteSets, TLC

VARIABLES
    pc,                 \* position of the running script
    literal,            \* format_srt_time: the decimal literal of the input
    seconds,            \* format_srt_time: the float argument
    time_str,           \* format_srt_time: the returned string
    segments,           \* faster-whisper: the segments the engine yields
    stream,             \* faster-whisper: what is left of the generator
    srt_content,        \* generate_srt: list of entry strings
    segment_index,      \* generate_srt: running index
    srt_file,           \* content of the written .srt file
    blocks,             \* parse_srt: blocks still to visit
    subtitles,          \* parse_srt: result list
    config,             \* the loaded configuration dict
    info,               \* platform answer to extract_info for the probe
    selected_lang,      \* get_video_info: resolved language
    ydl_opts,           \* generate_download_options: the job
    config_file,        \* config.json as found on disk
    target_pos,         \* main: position in target_urls
    processed_urls,     \* main: flattened list of videos
    contributed,        \* per top-level reference: what it added
    srt_files,          \* clean_srt_for_LLM main: the files found
    idx,                \* main: position in processed_urls / srt_files
    history             \* per item: what was done for it

timeVars  == <<literal, seconds, time_str>>
srtVars   == <<segments, stream, srt_content, segment_index, srt_file, blocks, subtitles>>
selVars   == <<info, selected_lang, ydl_opts>>
cfgVars   == <<config_file, config>>
batchVars == <<target_pos, processed_urls, contributed, srt_files, idx, history>>
vars      == <<pc, timeVars, srtVars, selVars, cfgVars, batchVars>>

None == "None"
NL   == "\n"
CR   == "\r"

----------------------------------------------------------------------------
(* Python str helpers                                                      *)

\* str.strip() strips these (the whitespace of the model's alphabet)
Whitespace == {" ", NL, CR}

Min(S) == CHOOSE x \in S : \A y \in S : x <= y
Max(S) == CHOOSE x \in S : \A y \in S : x >= y

Strip(s) ==
    LET solid == {i \in 1..Len(s) : s[i] \notin Whitespace} IN
    IF solid = {} THEN <<>> ELSE SubSeq(s, Min(solid), Max(solid))

StartsWithAt(s, i, sep) ==
    /\ i + Len(sep) - 1 <= Len(s)
    /\ SubSeq(s, i, i + Len(sep) - 1) = sep

\* str.split(sep): left-to-right, non-overlapping; always at least one piece
RECURSIVE SplitFrom(_, _, _)
SplitFrom(s, sep, from) ==
    LET hits == {i \in from..Len(s) : StartsWithAt(s, i, sep)} IN
    IF hits = {} THEN <<SubSeq(s, from, Len(s))>>
    ELSE <<SubSeq(s, from, Min(hits) - 1)>> \o SplitFrom(s, sep, Min(hits) + Len(sep))

Split(s, sep) == SplitFrom(s, sep, 1)

\* sep.join(parts)
RECURSIVE Join(_, _)
Join(parts, sep) ==
    IF parts = <<>> THEN <<>>
    ELSE IF Len(parts) = 1 THEN parts[1]
    ELSE parts[1] \o sep \o Join(Tail(parts), sep)

\* str.replace(old, new): left-to-right, non-overlapping
Replace(s, old, new) == Join(Split(s, old), new)

DigitChars == <<"0", "1", "2", "3", "4", "5", "6", "7", "8", "9">>
IsDigit(c) == \E d \in 1..10 : DigitChars[d] = c
DigitVal(c) == (CHOOSE d \in 1..10 : DigitChars[d] = c) - 1

\* str(n) / f"{n}" for n >= 0
RECURSIVE ToStr(_)
ToStr(n) ==
    IF n < 10 THEN <<DigitChars[n + 1]>>
    ELSE Append(ToStr(n \div 10), DigitChars[(n % 10) + 1])

\* f"{n:0wd}": zero-padded to at least w characters, never cut
RECURSIVE ZeroPad(_, _)
ZeroPad(s, w) == IF Len(s) >= w THEN s ELSE ZeroPad(<<"0">> \o s, w)

\* int(str): surrounding whitespace and one sign allowed, then digits with
\* single underscores between them; anything else raises ValueError
IntBody(s) ==
    IF s # <<>> /\ Head(s) \in {"+", "-"} THEN Tail(s) ELSE s

IsIntLiteral(line) ==
    LET b == IntBody(Strip(line)) IN
    /\ b # <<>>
    /\ IsDigit(b[1]) /\ IsDigit(b[Len(b)])
    /\ \A i \in 1..Len(b) : IsDigit(b[i]) \/ b[i] = "_"
    /\ \A i \in 1..(Len(b) - 1) : ~(b[i] = "_" /\ b[i + 1] = "_")

RECURSIVE DigitsValue(_, _)
DigitsValue(b, acc) ==
    IF b = <<>> THEN acc
    ELSE IF Head(b) = "_" THEN DigitsValue(Tail(b), acc)
    ELSE DigitsValue(Tail(b), 10 * acc + DigitVal(Head(b)))

IntOf(line) ==
    LET t == Strip(line)
        v == DigitsValue(IntBody(t), 0)
    IN IF t # <<>> /\ Head(t) = "-" THEN 0 - v ELSE v

----------------------------------------------------------------------------
(* Python float: the value int + 0.bits, 53 significant bits               *)

\* significand width of a Python float (IEEE-754 binary64)
MantissaBits == 53

RECURSIVE BitLen(_)
BitLen(n) == IF n = 0 THEN 0 ELSE 1 + BitLen(n \div 2)

LeadingZeros(bits) ==
    LET ones == {i \in 1..Len(bits) : bits[i] = 1} IN
    IF ones = {} THEN Len(bits) ELSE Min(ones) - 1

\* number of fraction bits a double keeps for the value int + 0.bits
KeptBits(int, bits) ==
    IF int > 0 THEN MantissaBits - BitLen(int)
    ELSE LeadingZeros(bits) + MantissaBits

\* bits + 1 in the last place; carry is what leaves at the top
IncBits(bits) ==
    LET zeros == {i \in 1..Len(bits) : bits[i] = 0} IN
    IF zeros = {}
    THEN [bits |-> [i \in 1..Len(bits) |-> 0], carry |-> 1]
    ELSE [bits |-> [i \in 1..Len(bits) |->
                       IF i < Max(zeros) THEN bits[i]
                       ELSE IF i = Max(zeros) THEN 1 ELSE 0],
          carry |-> 0]

\* round-to-nearest, ties-to-even, of the exact value int + 0.bits
RoundToDouble(int, bits) ==
    LET k == KeptBits(int, bits) IN
    IF Len(bits) <= k THEN [int |-> int, bits |-> bits]
    ELSE LET kept   == SubSeq(bits, 1, k)
             sticky == \E i \in (k + 2)..Len(bits) : bits[i] = 1
             lsb    == IF k > 0 THEN bits[k] ELSE int % 2
             up     == bits[k + 1] = 1 /\ (sticky \/ lsb = 1)
         IN IF up
            THEN LET r == IncBits(kept) IN
                 [int |-> int + r.carry, bits |-> r.bits]
            ELSE [int |-> int, bits |-> kept]

\* the 8 bits of a byte q, most significant first, and back
ByteBits(q) == [i \in 1..8 |-> (q \div 2^(8 - i)) % 2]
BitsByte(b) ==
    128 * b[1] + 64 * b[2] + 32 * b[3] + 16 * b[4] + 8 * b[5] + 4 * b[6]
        + 2 * b[7] + b[8]

\* binary expansion of r/den (0 <= r < den), a byte at a time: n bytes, then
\* one sticky bit standing for a non-zero rest
RECURSIVE DivBits(_, _, _)
DivBits(r, den, n) ==
    IF r = 0 THEN <<>>
    ELSE IF n = 0 THEN <<1>>
    ELSE ByteBits((256 * r) \div den) \o DivBits((256 * r) % den, den, n - 1)

\* bytes that hold the leading zeros of r/den, the kept bits and the round bit
DivBytes(den) == (BitLen(den) + MantissaBits + 1) \div 8 + 1

RECURSIVE DigitsNum(_, _)
DigitsNum(ds, acc) ==
    IF ds = <<>> THEN acc ELSE DigitsNum(Tail(ds), 10 * acc + Head(ds))

RECURSIVE Pow10(_)
Pow10(n) == IF n = 0 THEN 1 ELSE 10 * Pow10(n - 1)

\* the float a decimal literal whole.frac denotes (the nearest double)
FloatOf(lit) ==
    LET den == Pow10(Len(lit.frac)) IN
    RoundToDouble(lit.whole, DivBits(DigitsNum(lit.frac, 0), den, DivBytes(den)))

\* bits padded with zeros to whole bytes
PadBytes(bits) ==
    [i \in 1..(8 * ((Len(bits) + 7) \div 8)) |-> IF i <= Len(bits) THEN bits[i] ELSE 0]

\* 0.bits * m exactly, a byte at a time from the right: carry + 0.bits
RECURSIVE MulBytes(_, _)
MulBytes(bits, m) ==
    IF bits = <<>> THEN [carry |-> 0, bits |-> <<>>]
    ELSE LET r == MulBytes(SubSeq(bits, 9, Len(bits)), m)
             v == BitsByte(SubSeq(bits, 1, 8)) * m + r.carry
         IN [carry |-> v \div 256, bits |-> ByteBits(v % 256) \o r.bits]

MulBits(bits, m) == MulBytes(PadBytes(bits), m)

\* x // d and x % d for x >= 0 and a whole d > 0 (fmod is exact)
FloatFloorDiv(x, d) == [int |-> x.int \div d, bits |-> <<>>]
FloatMod(x, d)      == [int |-> x.int % d, bits |-> x.bits]
\* int(x): truncation
FloatInt(x)         == x.int
\* x - n for a whole n <= x (exact)
FloatSubInt(x, n)   == [int |-> x.int - n, bits |-> x.bits]
\* x * m: the exact product rounded to a double
FloatMul(x, m) ==
    LET p == MulBits(x.bits, m) IN RoundToDouble(x.int * m + p.carry, p.bits)

----------------------------------------------------------------------------
(* faster-whisper.py: format_srt_time                                      *)

Hours(s)   == FloatInt(FloatFloorDiv(s, 3600))
Minutes(s) == FloatInt(FloatFloorDiv(FloatMod(s, 3600), 60))
Secs(s)    == FloatInt(FloatMod(s, 60))

\* a rounding variant: round() in place of int()
MillisRounded(s) ==
    LET p == FloatMul(FloatSubInt(s, FloatInt(s)), 1000) IN
    p.int + (IF p.bits # <<>> /\ p.bits[1] = 1 THEN 1 ELSE 0)
Millis(s)  == FloatInt(FloatMul(FloatSubInt(s, FloatInt(s)), 1000))

TimeString(h, m, sec, ms) ==
    ZeroPad(ToStr(h), 2) \o <<":">> \o ZeroPad(ToStr(m), 2) \o <<":">>
        \o ZeroPad(ToStr(sec), 2) \o <<",">> \o ZeroPad(ToStr(ms), 3)

format_srt_time(s) == TimeString(Hours(s), Minutes(s), Secs(s), Millis(s))

\* inputs: decimal literals whole.frac
TimeWholes == {0, 1, 2, 59, 60, 3599, 3600, 3661, 86399, 86400, 90061, 360000}
TimeFracs  == {<<>>, <<5>>, <<2, 5>>, <<0, 3>>, <<3>>, <<0, 0, 9>>, <<0, 0, 1>>,
               <<9, 9, 9>>, <<9, 9, 9, 6>>}
TimeLiterals == [whole : TimeWholes, frac : TimeFracs]

IdleTime == /\ literal = None /\ seconds = None /\ time_str = None

InitTimeOnly ==
    /\ pc = "format"
    /\ literal \in TimeLiterals
    /\ seconds = FloatOf(literal)
    /\ time_str = None

FormatSrtTime ==
    /\ pc = "format"
    /\ time_str' = format_srt_time(seconds)
    /\ pc' = "formatted"
    /\ UNCHANGED <<literal, seconds>>
    /\ UNCHANGED <<srtVars, selVars, cfgVars, batchVars>>

----------------------------------------------------------------------------
(* faster-whisper.py: generate_srt, and main around it                     *)

Ellipsis  == "U+2026"
FullStop  == "U+3002"
Dot       == "."
Arrow     == <<" ", "-", "-", ">", " ">>

\* line 119: '...' first, then '..'
NormalizeText(text) ==
    Replace(Replace(text, <<Dot, Dot, Dot>>, <<Ellipsis>>), <<Dot, Dot>>, <<FullStop>>)

\* line 124: the time-range line
TimeRange(seg) ==
    format_srt_time(FloatOf(seg.start)) \o Arrow \o format_srt_time(FloatOf(seg.end))

\* a variant that ends an entry with one line break only
SrtEntryNoBlank(index, seg) ==
    ToStr(index) \o <<NL>> \o TimeRange(seg) \o <<NL>>
        \o Strip(NormalizeText(seg.text)) \o <<NL>>
\* lines 122-126: one entry of the file
SrtEntry(index, seg) ==
    ToStr(index) \o <<NL>> \o TimeRange(seg) \o <<NL>>
        \o Strip(NormalizeText(seg.text)) \o <<NL, NL>>

\* line 109
FirstSegmentIndex == 1
\* a variant that forgets to count
SameSegmentIndex(i) == i
\* line 129
NextSegmentIndex(i) == i + 1

\* "".join(srt_content)
RECURSIVE Concat(_)
Concat(parts) == IF parts = <<>> THEN <<>> ELSE Head(parts) \o Concat(Tail(parts))

Lit(w, f) == [whole |-> w, frac |-> f]
SegTimes == {<<Lit(0, <<>>), Lit(2, <<3>>)>>, <<Lit(59, <<9, 9, 9>>), Lit(3661, <<2, 5>>)>>}
SegTexts ==
    { <<"a">>, <<>>, <<" ">>, <<" ", "a", " ">>, <<"a", NL, "b">>,
      <<"a", NL, NL, "b">>, <<"a", NL, " ", NL, "b">>, <<"a", Dot, Dot, Dot>>,
      <<"a", Dot, Dot, Dot, Dot, Dot>>, <<"a", CR, "b">>, <<"1", NL, "2", NL, "3">> }
Seg(t, x) == [start |-> t[1], end |-> t[2], text |-> x]
Segment ==
    {Seg(<<Lit(0, <<>>), Lit(2, <<3>>)>>, x) : x \in SegTexts}
        \cup {Seg(t, <<"a">>) : t \in SegTimes}

MaxSegs == 2
SeqsUpTo(S, n) == UNION {[1..k -> S] : k \in 0..n}

IdleSrt ==
    /\ segments = <<>> /\ stream = None /\ srt_content = <<>>
    /\ segment_index = FirstSegmentIndex /\ srt_file = None
    /\ blocks = <<>> /\ subtitles = <<>>

\* main lines 175-178: the engine yields the segments lazily, or fails
TranscribeAudio ==
    /\ pc = "transcribe"
    /\ \/ /\ stream' = segments
          /\ pc' = "generate"
       \/ /\ stream' = None
          /\ pc' = "terminated"
    /\ UNCHANGED <<segments, srt_content, segment_index, srt_file, blocks, subtitles>>
    /\ UNCHANGED <<timeVars, selVars, cfgVars, batchVars>>

\* generate_srt lines 113-129: one turn of the loop takes the next segment
GenerateSrtSegment ==
    /\ pc = "generate"
    /\ stream # <<>>
    /\ srt_content' = Append(srt_content, SrtEntry(segment_index, Head(stream)))
    /\ segment_index' = NextSegmentIndex(segment_index)
    /\ stream' = Tail(stream)
    /\ UNCHANGED <<pc, segments, srt_file, blocks, subtitles>>
    /\ UNCHANGED <<timeVars, selVars, cfgVars, batchVars>>

\* generate_srt lines 132-139: write the file, or report that it failed
GenerateSrtSave ==
    /\ pc = "generate"
    /\ stream = <<>>
    /\ \/ /\ srt_file' = Concat(srt_content)
          /\ pc' = "saved"
       \/ /\ srt_file' = srt_file
          /\ pc' = "save_failed"
    /\ UNCHANGED <<segments, stream, srt_content, segment_index, blocks, subtitles>>
    /\ UNCHANGED <<timeVars, selVars, cfgVars, batchVars>>

----------------------------------------------------------------------------
(* clean_srt_for_LLM.py: parse_srt                                         *)

\* open(path, 'r').read(): universal newlines
ReadText(content) == Replace(Replace(content, <<CR, NL>>, <<NL>>), <<CR>>, <<NL>>)

\* line 47
SplitBlocks(srt_text) == Split(Strip(srt_text), <<NL, NL>>)
\* line 50
BlockLines(block) == Split(Strip(block), <<NL>>)

\* line 51
TooShort(lines) == Len(lines) < 3

\* lines 54-67: the cue of a block, or nothing when it is skipped
ParseBlock(block) ==
    LET lines == BlockLines(block) IN
    IF TooShort(lines) THEN <<>>
    ELSE IF ~IsIntLiteral(lines[1]) THEN <<>>
    ELSE << [index |-> IntOf(lines[1]),
             time  |-> lines[2],
             text  |-> Join(SubSeq(lines, 3, Len(lines)), <<NL>>)] >>

\* a variant that stops at the first skipped block
StopAfterSkip(rest) == <<>>
\* lines 52 and 67: continue
ContinueAfterSkip(rest) == rest

\* main lines 135-139 and parse_srt lines 44-47
ReadAndSplit ==
    /\ pc = "saved"
    /\ blocks' = SplitBlocks(ReadText(srt_file))
    /\ subtitles' = <<>>
    /\ pc' = "parse"
    /\ UNCHANGED <<segments, stream, srt_content, segment_index, srt_file>>
    /\ UNCHANGED <<timeVars, selVars, cfgVars, batchVars>>

\* parse_srt lines 49-67: one turn of the loop
ParseBlockStep ==
    /\ pc = "parse"
    /\ blocks # <<>>
    /\ LET cue == ParseBlock(Head(blocks)) IN
       /\ subtitles' = subtitles \o cue
       /\ blocks' = IF cue = <<>> THEN ContinueAfterSkip(Tail(blocks)) ELSE Tail(blocks)
    /\ UNCHANGED <<pc, segments, stream, srt_content, segment_index, srt_file>>
    /\ UNCHANGED <<timeVars, selVars, cfgVars, batchVars>>

\* parse_srt line 69
ParseReturn ==
    /\ pc = "parse"
    /\ blocks = <<>>
    /\ pc' = "parsed"
    /\ UNCHANGED srtVars
    /\ UNCHANGED <<timeVars, selVars, cfgVars, batchVars>>

----------------------------------------------------------------------------
(* Python dict helpers                                                     *)

EmptyDict == <<>>
\* dict.get(key, default)
Get(d, key, default) == IF key \in DOMAIN d THEN d[key] ELSE default

\* An insertion-ordered dict as a sequence of <<key, value>> pairs
Keys(od) == {od[i][1] : i \in DOMAIN od}
SetItem(od, k, v) ==
    IF k \in Keys(od)
    THEN [i \in DOMAIN od |-> IF od[i][1] = k THEN <<k, v>> ELSE od[i]]
    ELSE Append(od, <<k, v>>)

\* dict.update(other)
RECURSIVE Update(_, _)
Update(od, other) ==
    IF other = <<>> THEN od
    ELSE Update(SetItem(od, Head(other)[1], Head(other)[2]), Tail(other))

----------------------------------------------------------------------------
(* subtitle_downloader.py: get_video_info                                  *)

\* lines 74-84: manual tracks first, automatic tracks merged after them
AllSubtitles(answer) ==
    LET manual_subs   == answer.subtitles
        auto_captions == answer.automatic_captions
        merged        == IF manual_subs # <<>> THEN Update(<<>>, manual_subs) ELSE <<>>
    IN IF auto_captions # <<>> THEN Update(merged, auto_captions) ELSE merged

\* a variant that walks the catalog and takes its first key that is preferred
RECURSIVE FirstCatalogKey(_, _)
FirstCatalogKey(all_subtitles, preferred_languages) ==
    IF all_subtitles = <<>> THEN None
    ELSE IF \E i \in DOMAIN preferred_languages :
                preferred_languages[i] = Head(all_subtitles)[1]
         THEN Head(all_subtitles)[1]
         ELSE FirstCatalogKey(Tail(all_subtitles), preferred_languages)
\* lines 87-91: the first preferred language that is a key of the catalog
RECURSIVE SelectLang(_, _)
SelectLang(all_subtitles, preferred_languages) ==
    IF preferred_languages = <<>> THEN None
    ELSE IF Head(preferred_languages) \in Keys(all_subtitles)
         THEN Head(preferred_languages)
         ELSE SelectLang(all_subtitles, Tail(preferred_languages))

\* lines 68-98: (info, selected_lang); (None, None) on any exception
get_video_info(answer, preferred_languages) ==
    IF answer.kind = "error" THEN [info |-> None, lang |-> None]
    ELSE [info |-> "info", lang |-> SelectLang(AllSubtitles(answer), preferred_languages)]

----------------------------------------------------------------------------
(* subtitle_downloader.py: generate_download_options                       *)

DefaultTemplate == "%(title)s [%(id)s].%(ext)s"
\* the outcome of a call: an exception, or the value returned
Raised(e) == [raised |-> e]
Returned(v) == [value |-> v]
IsRaised(r) == "raised" \in DOMAIN r

\* os.path.join(a, b): a TypeError when a part is None
PathJoin(a, b) ==
    IF a = None \/ b = None THEN Raised("TypeError") ELSE [dir |-> a, name |-> b]

\* truth value of selected_lang
Truthy(x) == x # None /\ x # ""

\* lines 113-116
BaseOptions(cfg) ==
    [quiet |-> Get(cfg, "quiet", FALSE), no_warnings |-> Get(cfg, "no_warnings", TRUE)]

\* lines 122-123
CookieOption(cfg) ==
    IF "cookiefile" \in DOMAIN cfg THEN "cookiefile" :> cfg["cookiefile"] ELSE EmptyDict

\* lines 124-132
CaptionOptions(cfg, lang) ==
    LET filename == PathJoin(Get(cfg, "srt_path", None),
                             Get(cfg, "output_template", DefaultTemplate))
    IN IF IsRaised(filename) THEN filename
       ELSE [outtmpl |-> filename, writesubtitles |-> TRUE, writeautomaticsub |-> TRUE,
             subtitleslangs |-> <<lang>>, skip_download |-> TRUE,
             postprocessors |-> <<>>] @@ CookieOption(cfg) @@ BaseOptions(cfg)

\* a variant that attaches the credential to the audio job too
AudioOptionsWithCookie(cfg) ==
    LET filename == PathJoin(Get(cfg, "audio_path", None),
                             Get(cfg, "output_template", DefaultTemplate))
    IN IF IsRaised(filename) THEN filename
       ELSE [outtmpl |-> filename, format |-> "worstaudio/worst",
             writesubtitles |-> FALSE, writeautomaticsub |-> FALSE]
                @@ CookieOption(cfg) @@ BaseOptions(cfg)
\* lines 137-143
AudioOptions(cfg) ==
    LET filename == PathJoin(Get(cfg, "audio_path", None),
                             Get(cfg, "output_template", DefaultTemplate))
    IN IF IsRaised(filename) THEN filename
       ELSE [outtmpl |-> filename, format |-> "worstaudio/worst",
             writesubtitles |-> FALSE, writeautomaticsub |-> FALSE] @@ BaseOptions(cfg)

\* lines 100-146
generate_download_options(cfg, lang) ==
    IF Truthy(lang) THEN CaptionOptions(cfg, lang) ELSE AudioOptions(cfg)

----------------------------------------------------------------------------
(* get_video_info and generate_download_options called on their own        *)

Langs == {"zh", "en", "fr"}
MaxPrefs == 2

\* the key orders a dict over a subset of Langs can have
KeyOrders == {ks \in SeqsUpTo(Langs, Cardinality(Langs)) :
                 \A i, j \in DOMAIN ks : i # j => ks[i] # ks[j]}
Tracks(ks, kind) == [i \in DOMAIN ks |-> <<ks[i], kind>>]

ProbeError == [kind |-> "error", subtitles |-> <<>>, automatic_captions |-> <<>>]
ProbeInfos ==
    {[kind |-> "info", subtitles |-> Tracks(m, "manual"),
      automatic_captions |-> Tracks(a, "auto")] : m \in KeyOrders, a \in KeyOrders}

PathConfigs ==
    {a @@ b : a \in {EmptyDict, "srt_path" :> "./srt"},
              b \in {EmptyDict, "audio_path" :> "./audio"}}
CookieConfigs == {EmptyDict, "cookiefile" :> "cookies.txt"}
LangConfigs ==
    {EmptyDict} \cup {"subtitle_langs" :> l : l \in SeqsUpTo(Langs, MaxPrefs)}

\* line 257
PreferredLanguages(cfg) == Get(cfg, "subtitle_langs", <<"en">>)

IdleSel == /\ info = ProbeError /\ selected_lang = None /\ ydl_opts = EmptyDict

InitSelectOnly ==
    /\ pc = "get_video_info"
    /\ config \in {p @@ c @@ l : p \in PathConfigs, c \in CookieConfigs, l \in LangConfigs}
    /\ info \in ProbeInfos \cup {ProbeError}
    /\ selected_lang = None
    /\ ydl_opts = EmptyDict

CallGetVideoInfo ==
    /\ pc = "get_video_info"
    /\ LET r == get_video_info(info, PreferredLanguages(config)) IN
       /\ selected_lang' = r.lang
       /\ pc' = IF r.info = None THEN "no_info" ELSE "generate_download_options"
    /\ UNCHANGED <<info, ydl_opts, config>>
    /\ UNCHANGED <<config_file, timeVars, srtVars, batchVars>>

CallGenerateDownloadOptions ==
    /\ pc = "generate_download_options"
    /\ ydl_opts' = generate_download_options(config, selected_lang)
    /\ pc' = "options_done"
    /\ UNCHANGED <<info, selected_lang, config>>
    /\ UNCHANGED <<config_file, timeVars, srtVars, batchVars>>

----------------------------------------------------------------------------
(* subtitle_downloader.py: is_collection, extract_videos_from_collection   *)

\* a URL is the sequence of its path segments
V1 == <<"https://x", "/video", "/av1">>
V2 == <<"https://x", "/video", "/av2">>
V3 == <<"https://x", "/video", "/av3">>
C1 == <<"https://x", "/space", "/1", "/favlist", "/2">>
C2 == <<"https://x", "/lists", "/7">>

\* line 176
collection_keywords == {"/favlist", "/lists"}
\* lines 179-182
is_collection(url) == \E keyword \in collection_keywords : \E i \in DOMAIN url : url[i] = keyword

\* lines 208-212: entries without 'url' and 'webpage_url', and empty ones,
\* are passed over
RECURSIVE EntryUrls(_)
EntryUrls(entries) ==
    IF entries = <<>> THEN <<>>
    ELSE LET entry == Head(entries) IN
         (IF entry # EmptyDict /\ "url" \in DOMAIN entry THEN <<entry["url"]>>
          ELSE IF entry # EmptyDict /\ "webpage_url" \in DOMAIN entry
               THEN <<entry["webpage_url"]>>
               ELSE <<>>) \o EntryUrls(Tail(entries))

\* lines 189-221: the list of videos, or the exception it re-raises
extract_videos_from_collection(answer) ==
    IF answer.kind = "error" THEN Raised("DownloadError")
    ELSE IF answer.kind = "none" THEN Raised("TypeError")
    ELSE IF "entries" \in DOMAIN answer.info
         THEN Returned(EntryUrls(answer.info["entries"]))
    ELSE IF "webpage_url" \in DOMAIN answer.info
         THEN Returned(<<answer.info["webpage_url"]>>)
    ELSE Returned(<<>>)

ExpandError  == [kind |-> "error", info |-> EmptyDict]
ExpandNone   == [kind |-> "none", info |-> EmptyDict]
Playlist(es) == [kind |-> "info", info |-> ("entries" :> es)]
NotExpanded  == [kind |-> "single", info |-> EmptyDict]

EntryUrl(u) == "url" :> u
EntryWeb(u) == "webpage_url" :> u
EntryBare   == "title" :> "t"

\* what the platform may answer to the flat request for a collection
ExpandAnswers ==
    { ExpandError, ExpandNone, Playlist(<<>>), Playlist(<<EntryUrl(V2)>>),
      Playlist(<<EntryUrl(V2), EntryWeb(V3)>>), Playlist(<<EntryBare, EntryWeb(V3)>>),
      Playlist(<<EmptyDict, EntryUrl(V3) @@ EntryWeb(V2)>>),
      [kind |-> "info", info |-> EntryWeb(V2)], [kind |-> "info", info |-> EntryBare] }
FewExpandAnswers == {ExpandError, Playlist(<<EntryUrl(V2)>>)}

----------------------------------------------------------------------------
(* subtitle_downloader.py: main                                            *)

MaxUrls == 3

Missing   == [state |-> "missing", json |-> EmptyDict]
Malformed == [state |-> "malformed", json |-> EmptyDict]
Loaded(j) == [state |-> "ok", json |-> j]

IdleCfg == /\ config_file = Missing /\ config = EmptyDict

IdleBatch ==
    /\ target_pos = 1
    /\ processed_urls = <<>> /\ contributed = <<>> /\ srt_files = <<>>
    /\ idx = 1 /\ history = <<>>

\* load_config lines 30-40: exit(1) when the file is missing or is not JSON
LoadConfig ==
    /\ pc = "load_config"
    /\ IF config_file.state = "ok"
       THEN /\ config' = config_file.json
            /\ pc' = "urls"
       ELSE /\ config' = config
            /\ pc' = "exit_1"
    /\ UNCHANGED <<config_file, target_pos, processed_urls, contributed, srt_files,
                   idx, history, selVars>>
    /\ UNCHANGED <<timeVars, srtVars>>

TargetUrls == Get(config, "urls", <<>>)

\* main lines 236-241
MainUrls ==
    /\ pc = "urls"
    /\ pc' = IF TargetUrls = <<>> THEN "no_urls" ELSE "expand"
    /\ processed_urls' = <<>>
    /\ UNCHANGED <<config_file, config, target_pos, contributed, srt_files, idx,
                   history, selVars>>
    /\ UNCHANGED <<timeVars, srtVars>>

\* a variant where a failed expansion throws the list away
DropOnExpandError(urls) == <<>>
\* lines 248-250: the list stays as it was
KeepOnExpandError(urls) == urls

\* main lines 242-252: one turn of the loop over target_urls
ExpandStep(answers) ==
    /\ pc = "expand"
    /\ target_pos <= Len(TargetUrls)
    /\ LET url == TargetUrls[target_pos] IN
       IF is_collection(url)
       THEN \E answer \in answers :
               LET video_list == extract_videos_from_collection(answer) IN
               /\ processed_urls' =
                      IF IsRaised(video_list) THEN KeepOnExpandError(processed_urls)
                      ELSE processed_urls \o video_list.value
               /\ contributed' = Append(contributed, [ref |-> url, answer |-> answer])
       ELSE /\ processed_urls' = Append(processed_urls, url)
            /\ contributed' = Append(contributed, [ref |-> url, answer |-> NotExpanded])
    /\ target_pos' = target_pos + 1
    /\ UNCHANGED <<pc, config_file, config, srt_files, idx, history, selVars>>
    /\ UNCHANGED <<timeVars, srtVars>>

\* main lines 255-258
ExpandDone ==
    /\ pc = "expand"
    /\ target_pos > Len(TargetUrls)
    /\ pc' = "probe"
    /\ idx' = 1
    /\ UNCHANGED <<config_file, config, target_pos, processed_urls, contributed,
                   srt_files, history, selVars>>
    /\ UNCHANGED <<timeVars, srtVars>>

NoCaptions == [kind |-> "info", subtitles |-> <<>>, automatic_captions |-> <<>>]
EnCaptions == [kind |-> "info", subtitles |-> Tracks(<<"en">>, "manual"),
               automatic_captions |-> <<>>]
FewProbeAnswers == {ProbeError, NoCaptions, EnCaptions}

\* a variant without the continue of line 271
AlwaysBuildJob(video_info) == "options"
\* lines 269-271: skip the video when there is no info
AfterProbe(video_info) == IF video_info = None THEN "probe" ELSE "options"

\* main lines 262-276: the probe of the video at idx
ProbeStep ==
    /\ pc = "probe"
    /\ idx <= Len(processed_urls)
    /\ \E answer \in FewProbeAnswers :
          LET r == get_video_info(answer, PreferredLanguages(config)) IN
          /\ info' = answer
          /\ selected_lang' = r.lang
          /\ pc' = AfterProbe(r.info)
          /\ history' = Append(history,
                 [url |-> processed_urls[idx],
                  probe |-> IF r.info = None THEN "failed" ELSE "ok",
                  job |-> "none", download |-> "none"])
    /\ idx' = IF pc' = "probe" THEN idx + 1 ELSE idx
    /\ UNCHANGED <<config_file, config, target_pos, processed_urls, contributed,
                   srt_files, ydl_opts>>
    /\ UNCHANGED <<timeVars, srtVars>>

\* main line 280: an exception of generate_download_options is not caught
OptionsStep ==
    /\ pc = "options"
    /\ LET opts == generate_download_options(config, selected_lang) IN
       /\ ydl_opts' = opts
       /\ pc' = IF IsRaised(opts) THEN "uncaught" ELSE "download"
       /\ history' = [history EXCEPT ![idx].job =
              IF IsRaised(opts) THEN "raised"
              ELSE IF "format" \in DOMAIN opts THEN "audio" ELSE "caption"]
    /\ UNCHANGED <<config_file, config, target_pos, processed_urls, contributed,
                   srt_files, idx, info, selected_lang>>
    /\ UNCHANGED <<timeVars, srtVars>>

\* main lines 284-287 and download_item: a failed download is reported
DownloadStep ==
    /\ pc = "download"
    /\ \E success \in BOOLEAN :
          history' = [history EXCEPT ![idx].download = IF success THEN "ok" ELSE "failed"]
    /\ idx' = idx + 1
    /\ pc' = "probe"
    /\ UNCHANGED <<config_file, config, target_pos, processed_urls, contributed,
                   srt_files, selVars>>
    /\ UNCHANGED <<timeVars, srtVars>>

\* main line 289
MainDone ==
    /\ pc = "probe"
    /\ idx > Len(processed_urls)
    /\ pc' = "finished"
    /\ UNCHANGED <<cfgVars, batchVars, selVars>>
    /\ UNCHANGED <<timeVars, srtVars>>

----------------------------------------------------------------------------
(* clean_srt_for_LLM.py: load_config and main                              *)

MaxFiles == 2
SrtNames == {"a.srt", "b.srt", "c.srt"}

\* load_config lines 11-18: nothing is caught, and both fields are required
CleanLoadConfig ==
    /\ pc = "clean_load_config"
    /\ IF /\ config_file.state = "ok"
          /\ "srt_path" \in DOMAIN config_file.json
          /\ "out_path" \in DOMAIN config_file.json
       THEN /\ config' = config_file.json
            /\ pc' = "clean_list"
       ELSE /\ config' = config
            /\ pc' = "clean_uncaught_at_start"
    /\ UNCHANGED <<config_file, batchVars, selVars, timeVars, srtVars>>

\* main lines 123-129: os.listdir may raise; no file ends the run
CleanListFiles ==
    /\ pc = "clean_list"
    /\ \/ pc' = "clean_uncaught_at_start"
       \/ pc' = IF srt_files = <<>> THEN "clean_no_files" ELSE "clean_loop"
    /\ UNCHANGED <<cfgVars, batchVars, selVars, timeVars, srtVars>>

\* main lines 132-155: whatever fails for the file is caught at line 153
CleanFile ==
    /\ pc = "clean_loop"
    /\ idx <= Len(srt_files)
    /\ \E result \in {"read_failed", "saved", "save_failed"} :
          history' = Append(history, [file |-> srt_files[idx], result |-> result])
    /\ idx' = idx + 1
    /\ UNCHANGED <<pc, cfgVars, target_pos, processed_urls, contributed, srt_files,
                   selVars, timeVars, srtVars>>

\* main line 157
CleanDone ==
    /\ pc = "clean_loop"
    /\ idx > Len(srt_files)
    /\ pc' = "clean_finished"
    /\ UNCHANGED <<cfgVars, batchVars, selVars, timeVars, srtVars>>

----------------------------------------------------------------------------
(* Specifications                                                          *)

\* format_srt_time on its own
InitTime == InitTimeOnly /\ IdleSrt /\ IdleSel /\ IdleCfg /\ IdleBatch
NextTime == FormatSrtTime
SpecTime == InitTime /\ [][NextTime]_vars

\* faster-whisper.py main, then clean_srt_for_LLM.py on the file it wrote
InitSrt ==
    /\ pc = "transcribe"
    /\ segments \in SeqsUpTo(Segment, MaxSegs)
    /\ stream = None /\ srt_content = <<>> /\ segment_index = FirstSegmentIndex
    /\ srt_file = None /\ blocks = <<>> /\ subtitles = <<>>
    /\ IdleTime /\ IdleSel /\ IdleCfg /\ IdleBatch
NextSrt ==
    \/ TranscribeAudio
    \/ GenerateSrtSegment
    \/ GenerateSrtSave
    \/ ReadAndSplit
    \/ ParseBlockStep
    \/ ParseReturn
SpecSrt == InitSrt /\ [][NextSrt]_vars

\* parse_srt on any file whose lines come from ParseLines
MaxLines == 7
ParseLines == {<<>>, <<"1">>, <<"a">>, <<" ">>}
InitParse ==
    /\ pc = "saved"
    /\ srt_file \in {Join(ls, <<NL>>) : ls \in SeqsUpTo(ParseLines, MaxLines)}
    /\ segments = <<>> /\ stream = None /\ srt_content = <<>>
    /\ segment_index = FirstSegmentIndex /\ blocks = <<>> /\ subtitles = <<>>
    /\ IdleTime /\ IdleSel /\ IdleCfg /\ IdleBatch
NextParse ==
    \/ ReadAndSplit
    \/ ParseBlockStep
    \/ ParseReturn
SpecParse == InitParse /\ [][NextParse]_vars

\* get_video_info, then generate_download_options on what it resolved
InitSelect ==
    /\ InitSelectOnly
    /\ config_file = Loaded(config)
    /\ IdleTime /\ IdleSrt /\ IdleBatch
NextSelect ==
    \/ CallGetVideoInfo
    \/ CallGenerateDownloadOptions
SpecSelect == InitSelect /\ [][NextSelect]_vars

\* subtitle_downloader.py main up to the end of the expansion loop
UrlConfigs(refs) == {"urls" :> u : u \in SeqsUpTo(refs, MaxUrls)}
FullPaths == ("srt_path" :> "./srt") @@ ("audio_path" :> "./audio")
InitExpand ==
    /\ pc = "load_config"
    /\ config_file \in {Loaded(u @@ FullPaths) : u \in UrlConfigs({V1, C1, C2})}
    /\ config = EmptyDict
    /\ IdleBatch /\ IdleTime /\ IdleSrt /\ IdleSel
ExpandAny == ExpandStep(ExpandAnswers)
NextExpand ==
    \/ LoadConfig
    \/ MainUrls
    \/ ExpandAny
    \/ ExpandDone
SpecExpand == InitExpand /\ [][NextExpand]_vars

\* subtitle_downloader.py main and clean_srt_for_LLM.py main, whole runs
InitBatch ==
    /\ \/ /\ pc = "load_config"
          /\ config_file \in {Missing, Malformed} \cup
                 {Loaded(u @@ p) : u \in {EmptyDict} \cup UrlConfigs({V1, C1}),
                                   p \in PathConfigs}
          /\ srt_files = <<>>
       \/ /\ pc = "clean_load_config"
          /\ config_file \in {Missing, Malformed} \cup
                 {Loaded(a @@ b) : a \in {EmptyDict, "srt_path" :> "./srt"},
                                   b \in {EmptyDict, "out_path" :> "./out"}}
          /\ srt_files \in {f \in SeqsUpTo(SrtNames, MaxFiles) :
                               \A i, j \in DOMAIN f : i # j => f[i] # f[j]}
    /\ config = EmptyDict
    /\ target_pos = 1 /\ processed_urls = <<>> /\ contributed = <<>>
    /\ idx = 1 /\ history = <<>>
    /\ IdleTime /\ IdleSrt /\ IdleSel
ExpandFew == ExpandStep(FewExpandAnswers)
NextBatch ==
    \/ LoadConfig
    \/ MainUrls
    \/ ExpandFew
    \/ ExpandDone
    \/ ProbeStep
    \/ OptionsStep
    \/ DownloadStep
    \/ MainDone
    \/ CleanLoadConfig
    \/ CleanListFiles
    \/ CleanFile
    \/ CleanDone
SpecBatch == InitBatch /\ [][NextBatch]_vars

----------------------------------------------------------------------------
(* Properties                                                              *)

\* the document the segments denote: index k, the time-range line, the
\* normalized text (not yet trimmed)
Document(segs) ==
    [k \in DOMAIN segs |->
        [index |-> k, time |-> TimeRange(segs[k]), text |-> NormalizeText(segs[k].text)]]

HasBlankLine(text) == \E i \in 1..(Len(text) - 1) : text[i] = NL /\ text[i + 1] = NL
HasCR(text) == \E i \in DOMAIN text : text[i] = CR

SameCues(parsed, doc) ==
    /\ Len(parsed) = Len(doc)
    /\ \A k \in DOMAIN doc :
          /\ parsed[k].index = doc[k].index
          /\ parsed[k].time = doc[k].time
          /\ parsed[k].text = Strip(doc[k].text)

\* C1 as stated: parsing the file generate_srt wrote gives back the document,
\* cue for cue, with the text trimmed.
RoundTripAnyDocument ==
    pc = "parsed" => SameCues(subtitles, Document(segments))

\* a cue text that survives: not empty once trimmed, no empty line inside,
\* no carriage return
TextRoundTrips(text) ==
    /\ Strip(text) # <<>>
    /\ ~HasBlankLine(Strip(text))
    /\ ~HasCR(Strip(text))

\* C1 amended: the round trip holds for every document whose cue texts are,
\* once trimmed, non-empty and free of empty lines and carriage returns.
RoundTripOfNonEmptyTexts ==
    (pc = "parsed" /\ \A k \in DOMAIN segments : TextRoundTrips(Document(segments)[k].text))
        => SameCues(subtitles, Document(segments))

\* two cues came back, one of several lines and one whose text was trimmed
RoundTripWitness ==
    /\ pc = "parsed"
    /\ Len(segments) = 2
    /\ \A k \in DOMAIN segments : TextRoundTrips(Document(segments)[k].text)
    /\ \E k \in DOMAIN segments : \E i \in DOMAIN subtitles[k].text : subtitles[k].text[i] = NL
    /\ \E k \in DOMAIN segments : Strip(segments[k].text) # segments[k].text
    /\ Len(subtitles) = 2

\* C10: the k-th segment taken from the stream becomes the entry with index
\* k; entries and the rest of the stream together are the segments, in order,
\* each once.
FirstLine(entry) == Split(entry, <<NL>>)[1]
Generating == pc \in {"generate", "saved", "save_failed", "parse", "parsed"}
SegmentsIndexedInOrder ==
    Generating =>
        /\ Len(srt_content) + Len(stream) = Len(segments)
        /\ stream = SubSeq(segments, Len(srt_content) + 1, Len(segments))
        /\ segment_index = Len(srt_content) + 1
        /\ \A k \in DOMAIN srt_content :
              /\ FirstLine(srt_content[k]) = ToStr(k)
              /\ srt_content[k] = SrtEntry(k, segments[k])
        /\ (pc # "generate" => Len(srt_content) = Len(segments))

SegmentsIndexedWitness ==
    /\ pc = "saved"
    /\ Len(segments) = 2
    /\ FirstLine(srt_content[2]) = <<"2">>
    /\ segments[1] # segments[2]

\* C9: a block counts when, trimmed, it has at least 3 lines and its first
\* line is an integer
ValidBlock(block) ==
    /\ Len(BlockLines(block)) >= 3
    /\ IsIntLiteral(BlockLines(block)[1])
CueOfBlock(block) ==
    LET lines == BlockLines(block) IN
    [index |-> IntOf(lines[1]), time |-> lines[2],
     text |-> Join(SubSeq(lines, 3, Len(lines)), <<NL>>)]
FileBlocks == SplitBlocks(ReadText(srt_file))

\* C9: parse_srt returns exactly the counting blocks of the file, in order;
\* the other blocks are absent and do not stop the blocks after them.
ParseKeepsExactlyValidBlocks ==
    pc = "parsed" =>
        LET kept == SelectSeq(FileBlocks, ValidBlock) IN
        /\ Len(subtitles) = Len(kept)
        /\ \A i \in DOMAIN kept : subtitles[i] = CueOfBlock(kept[i])

\* a 2-line block and a block with a non-numeric first line were passed over,
\* and a block after them was parsed
ParseSkipWitness ==
    /\ pc = "parsed"
    /\ \E i, j \in DOMAIN FileBlocks :
          /\ i < j
          /\ \/ Len(BlockLines(FileBlocks[i])) = 2
             \/ /\ Len(BlockLines(FileBlocks[i])) >= 3
                /\ ~IsIntLiteral(BlockLines(FileBlocks[i])[1])
          /\ ValidBlock(FileBlocks[j])
    /\ Len(subtitles) = 1

\* the whole seconds and the fraction of the float, exactly
WholeSeconds == seconds.int
ExactMillis == MulBits(seconds.bits, 1000).carry
\* the exact product frac * 1000 is less than 2^-44 below a whole number
NearNextMilli ==
    LET rest == MulBits(seconds.bits, 1000).bits IN
    /\ Len(rest) >= MantissaBits - 9
    /\ \A i \in 1..(MantissaBits - 9) : rest[i] = 1

\* C8 as stated: hours, minutes and seconds floored, hours unbounded, and the
\* millisecond field the floor of fraction * 1000.
TimeFieldsExactlyTruncated ==
    pc = "formatted" =>
        time_str = TimeString(WholeSeconds \div 3600, (WholeSeconds \div 60) % 60,
                              WholeSeconds % 60, ExactMillis)

\* C8 amended: as stated, except that the millisecond field is the truncated
\* double product: the floor of fraction * 1000, or the next whole number when
\* the product is within rounding of it; both examples come out as stated.
TimeFieldsTruncatedDoubleProduct ==
    pc = "formatted" =>
        /\ \E ms \in {ExactMillis, ExactMillis + 1} :
              /\ time_str = TimeString(WholeSeconds \div 3600, (WholeSeconds \div 60) % 60,
                                       WholeSeconds % 60, ms)
              /\ ms = ExactMillis + 1 => NearNextMilli
        /\ literal = Lit(3661, <<2, 5>>) =>
              time_str = <<"0", "1", ":", "0", "1", ":", "0", "1", ",", "2", "5", "0">>
        /\ literal = Lit(59, <<9, 9, 9>>) =>
              time_str = <<"0", "0", ":", "0", "0", ":", "5", "9", ",", "9", "9", "9">>

\* more than 99 hours, with a fraction that is cut, not rounded up
TimeWitness ==
    /\ pc = "formatted"
    /\ literal = Lit(360000, <<9, 9, 9, 6>>)
    /\ time_str = <<"1", "0", "0", ":", "0", "0", ":", "0", "0", ",", "9", "9", "9">>

\* the keys of the two track mappings of the probed video, as a set
CatalogKeys ==
    {info.subtitles[i][1] : i \in DOMAIN info.subtitles}
        \cup {info.automatic_captions[i][1] : i \in DOMAIN info.automatic_captions}
FirstPreferredIn(prefs, keys) ==
    IF \E i \in DOMAIN prefs : prefs[i] \in keys
    THEN prefs[CHOOSE i \in DOMAIN prefs :
                  /\ prefs[i] \in keys
                  /\ \A j \in 1..(i - 1) : prefs[j] \notin keys]
    ELSE None

\* C6: the language resolved for a probed video is the first element of the
\* preference list that is a key of the manual or the automatic mapping,
\* whatever the order of the keys; none when no element is a key.
LanguageIsFirstPreferredKey ==
    pc \in {"generate_download_options", "options_done"} =>
        selected_lang = FirstPreferredIn(PreferredLanguages(config), CatalogKeys)

\* both preferences are in the catalog, the second one as its first key and
\* the first one only among the automatic tracks
LanguageWitness ==
    /\ pc = "generate_download_options"
    /\ Len(PreferredLanguages(config)) = 2
    /\ info.subtitles # <<>>
    /\ info.subtitles[1][1] = PreferredLanguages(config)[2]
    /\ PreferredLanguages(config)[1] \notin Keys(info.subtitles)
    /\ PreferredLanguages(config)[1] \in Keys(info.automatic_captions)
    /\ selected_lang = PreferredLanguages(config)[1]

HasOutputDirs == "srt_path" \in DOMAIN config /\ "audio_path" \in DOMAIN config
CommonKeys == {"quiet", "no_warnings", "outtmpl"}
CaptionJob ==
    /\ DOMAIN ydl_opts =
          CommonKeys \cup {"writesubtitles", "writeautomaticsub", "subtitleslangs",
                           "skip_download", "postprocessors"}
              \cup (IF "cookiefile" \in DOMAIN config THEN {"cookiefile"} ELSE {})
    /\ ydl_opts.writesubtitles = TRUE
    /\ ydl_opts.writeautomaticsub = TRUE
    /\ ydl_opts.subtitleslangs = <<selected_lang>>
    /\ ydl_opts.skip_download = TRUE
    /\ ydl_opts.postprocessors = <<>>
    /\ "cookiefile" \in DOMAIN config => ydl_opts.cookiefile = config["cookiefile"]
    /\ ydl_opts.outtmpl.dir = config["srt_path"]
AudioJob ==
    /\ DOMAIN ydl_opts = CommonKeys \cup {"format", "writesubtitles", "writeautomaticsub"}
    /\ ydl_opts.format = "worstaudio/worst"
    /\ ydl_opts.writesubtitles = FALSE
    /\ ydl_opts.writeautomaticsub = FALSE
    /\ ydl_opts.outtmpl.dir = config["audio_path"]

Downloader ==
    pc \in {"load_config", "exit_1", "urls", "no_urls", "expand", "probe", "options",
            "download", "uncaught", "finished"}
Cleaner ==
    pc \in {"clean_load_config", "clean_uncaught_at_start", "clean_list",
            "clean_no_files", "clean_loop", "clean_finished"}

\* C2: a video whose probe failed has no job and no download, and the loop is
\* already past it.
FailedProbeSkipsVideo ==
    Downloader =>
        \A i \in DOMAIN history :
            history[i].probe = "failed" =>
                /\ history[i].job = "none"
                /\ history[i].download = "none"
                /\ idx > i

\* a failed probe, and the video after it probed and downloaded
FailedProbeWitness ==
    /\ Downloader
    /\ \E i, j \in DOMAIN history :
          /\ i < j
          /\ history[i].probe = "failed"
          /\ history[j].probe = "ok"
          /\ history[j].download = "ok"

HasAddress(entry) ==
    entry # EmptyDict /\ ("url" \in DOMAIN entry \/ "webpage_url" \in DOMAIN entry)
AddressOf(entry) == IF "url" \in DOMAIN entry THEN entry["url"] ELSE entry["webpage_url"]
ExpansionFailed(answer) == answer.kind \in {"error", "none"}
\* what one top-level reference is to contribute
Contribution(c) ==
    IF c.answer.kind = "single" THEN <<c.ref>>
    ELSE IF ExpansionFailed(c.answer) THEN <<>>
    ELSE IF "entries" \in DOMAIN c.answer.info
         THEN LET usable == SelectSeq(c.answer.info["entries"], HasAddress) IN
              [i \in DOMAIN usable |-> AddressOf(usable[i])]
    ELSE IF "webpage_url" \in DOMAIN c.answer.info THEN <<c.answer.info["webpage_url"]>>
    ELSE <<>>
RECURSIVE Flatten(_)
Flatten(cs) == IF cs = <<>> THEN <<>> ELSE Contribution(Head(cs)) \o Flatten(Tail(cs))

\* C3: the list of videos is the contributions of the references gone
\* through, in the order of the references; a reference whose expansion
\* failed contributes nothing and every other one its own videos.
FailedExpansionContributesNothing ==
    pc \in {"expand", "probe"} =>
        /\ Len(contributed) = target_pos - 1
        /\ \A i \in DOMAIN contributed : contributed[i].ref = TargetUrls[i]
        /\ processed_urls = Flatten(contributed)

\* a failed collection between a collection and a video that contributed
FailedExpansionWitness ==
    /\ pc = "probe"
    /\ Len(contributed) = 3
    /\ ExpansionFailed(contributed[2].answer)
    /\ contributed[1].answer.kind = "info"
    /\ Len(Contribution(contributed[1])) = 2
    /\ contributed[3].answer.kind = "single"
    /\ processed_urls = Contribution(contributed[1]) \o <<contributed[3].ref>>

\* C4: no failure for one item ends the run: the loop over the videos and
\* the loop over the subtitle files are never left by an uncaught exception.
NoFailureLeavesTheLoop == pc # "uncaught"

DownloaderConfigError ==
    \/ config_file.state # "ok"
    \/ "srt_path" \notin DOMAIN config_file.json
    \/ "audio_path" \notin DOMAIN config_file.json
CleanerConfigError ==
    \/ config_file.state # "ok"
    \/ "srt_path" \notin DOMAIN config_file.json
    \/ "out_path" \notin DOMAIN config_file.json

\* C5: in a run whose configuration is missing, malformed or without a
\* required directory, no video is probed or downloaded and no file is
\* converted.
ConfigErrorBeforeAnyItem ==
    /\ (Downloader /\ DownloaderConfigError) => history = <<>>
    /\ (Cleaner /\ CleanerConfigError) => history = <<>>

=============================================================================
